---- MODULE Spec2Model ----
(***************************************************************************)
(* taskmd: Tekton Task manifests -> Markdown reference documentation.      *)
(*                                                                         *)
(* Two programs share the rendering code:                                  *)
(*   variant "file" : src/main.go          (taskmd [task-files])           *)
(*   variant "res"  : src/unnamed/part_000 (taskmd [kustomize-dir])        *)
(*                                                                         *)
(* Strings are TLA+ strings, strings.Builder.WriteString is \o, and        *)
(* fmt.Sprintf of string arguments is concatenation.  The filesystem is a  *)
(* function from the paths that exist (sequences of path components) to    *)
(* their entry (a directory, or a regular file with its bytes).            *)
(***************************************************************************)
EXTENDS Integers, Sequences, FiniteSets, TLC

VARIABLES
    variant,    \* which program runs: "file" or "res"
    args,       \* os.Args[1:]
    resources,  \* what the kustomize build of args[1] emits ("res" variant)
    fs,         \* the filesystem
    pc,         \* position of the process: main, run, generate, loop, exit
    tasks,      \* the tasks returned by the load step
    i,          \* loop index of GenerateMarkdownToDirectory (1-based)
    exitCode,   \* process exit status (-1 while running)
    stderr,     \* what was logged to standard error
    runNo,      \* number of the current invocation
    fs0,        \* history: the filesystem when the current invocation started
    fsPrev,     \* history: the filesystem when the previous invocation started
    ioErrs,     \* history: filesystem operations of the output writer that failed
    failedAt,   \* history: loop index whose write failed in this invocation (0: none)
    failedOp    \* history: the operation of writeGenerateMarkdown that failed there

vars == <<variant, args, resources, fs, pc, tasks, i, exitCode, stderr, runNo,
          fs0, fsPrev, ioErrs, failedAt, failedOp>>

----------------------------------------------------------------------------
(* Bounds of the model *)

MaxArgs == 2        \* longest argument list
MaxRes == 3         \* longest resource list the build step emits
MaxRuns == 2        \* invocations in a row
MaxPartial == 1     \* longest prefix a failed write may leave behind

----------------------------------------------------------------------------
(* Sequences and strings *)

Last(s) == s[Len(s)]

IsPrefix(p, s) == Len(p) <= Len(s) /\ SubSeq(s, 1, Len(p)) = p

Min(a, b) == IF a <= b THEN a ELSE b

\* Start positions of the occurrences of sub in s.
Positions(s, sub) ==
    {k \in 1..(Len(s) - Len(sub) + 1) : SubSeq(s, k, k + Len(sub) - 1) = sub}

Occurs(s, sub) == Cardinality(Positions(s, sub))

----------------------------------------------------------------------------
(* pipepinev1.Task: the fields the program reads *)

NilParam == [Type |-> "nil", StringVal |-> "", ArrayVal |-> <<>>]

StringParam(s) == [Type |-> "string", StringVal |-> s, ArrayVal |-> <<>>]

ArrayParam(a) == [Type |-> "array", StringVal |-> "", ArrayVal |-> a]

ObjectParam == [Type |-> "object", StringVal |-> "", ArrayVal |-> <<>>]

Param(n, d, def) == [Name |-> n, Description |-> d, Default |-> def]

Workspace(n, d, o) == [Name |-> n, Description |-> d, Optional |-> o]

Result(n, d) == [Name |-> n, Description |-> d]

Task(n, d, ps, ws, rs) ==
    [Name |-> n, Description |-> d, Params |-> ps, Workspaces |-> ws, Results |-> rs]

----------------------------------------------------------------------------
(* stringifyParam and the generators (identical in both programs) *)

\* The local builder of stringifyParam's array case after the loop and the
\* closing bracket: "%v, " for the last element, "%v" for the others.
RECURSIVE ArrayItems(_, _)
ArrayItems(arr, k) ==
    IF k > Len(arr) THEN ""
    ELSE (IF k - 1 = Len(arr) - 1 THEN arr[k] \o ", " ELSE arr[k])
         \o ArrayItems(arr, k + 1)

ArrayBuilder(arr) == "[" \o ArrayItems(arr, 1) \o "]"

\* stringifyParam: the array case builds ArrayBuilder and falls out of the
\* switch without returning it, so the final return of the empty string answers.
stringifyParam(param) ==
    IF param.Type = "nil" THEN [s |-> "", err |-> TRUE]
    ELSE CASE param.Type = "string" -> [s |-> param.StringVal, err |-> FALSE]
           [] param.Type = "array" ->
                LET stringBuilder == ArrayBuilder(param.ArrayVal)
                IN  [s |-> "", err |-> FALSE]
           [] param.Type = "object" -> [s |-> "{}", err |-> FALSE]
           [] OTHER -> [s |-> "", err |-> FALSE]

\* The backquote character of the Markdown output, which a TLA+ string cannot
\* hold: the apostrophe stands for it throughout.
Tick == "'"

generateHeader(task, sb) ==
    [sb |-> sb \o "# " \o Tick \o task.Name \o Tick \o "\n\n", err |-> FALSE]

generateDescription(task, sb) ==
    [sb |-> (sb \o task.Description) \o "\n\n", err |-> FALSE]

RECURSIVE InputsLoop(_, _, _)
InputsLoop(params, k, sb) ==
    IF k > Len(params) THEN [sb |-> sb, err |-> FALSE]
    ELSE LET param == params[k] IN
         IF param.Default # NilParam
         THEN LET r == stringifyParam(param.Default) IN
              IF r.err THEN [sb |-> sb, err |-> TRUE]
              ELSE InputsLoop(params, k + 1,
                      sb \o "* **" \o param.Name \o "**: " \o param.Description
                         \o " " \o Tick \o "(Default: " \o r.s \o ")" \o Tick \o "\n")
         ELSE InputsLoop(params, k + 1,
                      sb \o "* **" \o param.Name \o "**: " \o param.Description \o "\n")

generateInputs(task, sb) ==
    LET r == InputsLoop(task.Params, 1, sb \o "## Parameters\n")
    IN  IF r.err THEN r ELSE [sb |-> r.sb \o "\n", err |-> FALSE]

RECURSIVE WorkspacesLoop(_, _, _)
WorkspacesLoop(wss, k, sb) ==
    IF k > Len(wss) THEN sb
    ELSE LET workspace == wss[k] IN
         WorkspacesLoop(wss, k + 1,
            IF workspace.Optional
            THEN sb \o "* **" \o workspace.Name \o "** (optional): "
                    \o workspace.Description \o "\n"
            ELSE sb \o "* **" \o workspace.Name \o "**: "
                    \o workspace.Description \o "\n")

\* Seeded fault: the heading is written only when there is a workspace.
generateWorkspacesSkipEmpty(task, sb) ==
    [sb |-> IF task.Workspaces = <<>> THEN sb \o "\n"
            ELSE WorkspacesLoop(task.Workspaces, 1, sb \o "## Workspaces\n") \o "\n",
     err |-> FALSE]

generateWorkspaces(task, sb) ==
    [sb |-> WorkspacesLoop(task.Workspaces, 1, sb \o "## Workspaces\n") \o "\n",
     err |-> FALSE]

RECURSIVE ResultsLoop(_, _, _)
ResultsLoop(rs, k, sb) ==
    IF k > Len(rs) THEN sb
    ELSE ResultsLoop(rs, k + 1,
            sb \o "* **" \o rs[k].Name \o "**: " \o rs[k].Description \o "\n")

generateResults(task, sb) ==
    [sb |-> ResultsLoop(task.Results, 1, sb \o "## Results\n"), err |-> FALSE]

\* The body of GenerateMarkdownToDirectory's loop up to the write: a fresh
\* builder through the five generators, stopping at the first error.
RenderDoc(task) ==
    LET h == generateHeader(task, "") IN
    IF h.err THEN h ELSE
    LET d == generateDescription(task, h.sb) IN
    IF d.err THEN d ELSE
    LET p == generateInputs(task, d.sb) IN
    IF p.err THEN p ELSE
    LET w == generateWorkspaces(task, p.sb) IN
    IF w.err THEN w ELSE
    generateResults(task, w.sb)

----------------------------------------------------------------------------
(* The filesystem: os.ReadFile, os.Stat, os.RemoveAll, os.MkdirAll,        *)
(* os.Create and File.Write as the program uses them.  `fail` is an I/O    *)
(* error of the environment injected into the operation.                   *)

Dir == [type |-> "dir", data |-> ""]

File(bytes) == [type |-> "file", data |-> bytes]

Put(f, p, e) == (p :> e) @@ f

IsDir(f, p) == p \in DOMAIN f /\ f[p].type = "dir"

IsFile(f, p) == p \in DOMAIN f /\ f[p].type = "file"

\* The directory holding p; the working directory (<<>>) always exists.
Parent(p) == SubSeq(p, 1, Len(p) - 1)

ParentIsDir(f, p) == Len(p) = 1 \/ IsDir(f, Parent(p))

ReadFile(f, p, fail) ==
    IF ~fail /\ IsFile(f, p) THEN [bytes |-> f[p].data, err |-> FALSE]
    ELSE [bytes |-> "", err |-> TRUE]

\* Seeded fault: the name is the first component of p, not the last.
StatFirstName(f, p, fail) ==
    IF fail \/ p \notin DOMAIN f THEN [name |-> "", err |-> TRUE]
    ELSE [name |-> p[1], err |-> FALSE]

\* os.Stat(p).Name() is the base name of p.
Stat(f, p, fail) ==
    IF fail \/ p \notin DOMAIN f THEN [name |-> "", err |-> TRUE]
    ELSE [name |-> Last(p), err |-> FALSE]

\* os.RemoveAll: p and everything below it; no error when p is absent.  A
\* failing removal leaves either everything or only p itself (`part`).
RemoveAll(f, p, fail, part) ==
    IF fail
    THEN [fs |-> IF part THEN [q \in {q \in DOMAIN f : ~(IsPrefix(p, q) /\ q # p)} |-> f[q]]
                 ELSE f,
          err |-> TRUE]
    ELSE [fs |-> [q \in {q \in DOMAIN f : ~IsPrefix(p, q)} |-> f[q]], err |-> FALSE]

\* os.MkdirAll: creates p and its missing ancestors; fails on an ancestor (or p)
\* that is a regular file, keeping the directories made before it.
RECURSIVE MkdirFrom(_, _, _)
MkdirFrom(f, p, k) ==
    IF k > Len(p) THEN [fs |-> f, err |-> FALSE]
    ELSE LET q == SubSeq(p, 1, k) IN
         IF IsFile(f, q) THEN [fs |-> f, err |-> TRUE]
         ELSE MkdirFrom(IF q \in DOMAIN f THEN f ELSE Put(f, q, Dir), p, k + 1)

MkdirAll(f, p, fail) ==
    IF fail THEN [fs |-> f, err |-> TRUE] ELSE MkdirFrom(f, p, 1)

\* os.Create: creates or truncates the regular file p.
Create(f, p, fail) ==
    IF fail \/ ~ParentIsDir(f, p) \/ IsDir(f, p) THEN [fs |-> f, err |-> TRUE]
    ELSE [fs |-> Put(f, p, File("")), err |-> FALSE]

\* File.Write / File.WriteString on the handle os.Create returned: the file
\* holds the bytes; a failing write leaves the first `cut` of them.
Write(f, p, bytes, fail, cut) ==
    IF fail THEN [fs |-> Put(f, p, File(SubSeq(bytes, 1, Min(cut, Len(bytes))))),
                  err |-> TRUE]
    ELSE [fs |-> Put(f, p, File(bytes)), err |-> FALSE]

----------------------------------------------------------------------------
(* The manifests of the model and their decoding (yaml.Unmarshal,          *)
(* resource.MarshalJSON + json.Unmarshal: external decoders, a table)      *)

TaskBuild ==
    Task("build", "Builds the app.",
         <<Param("image", "", NilParam),
           Param("tag", "Image tag", StringParam("latest")),
           Param("args", "Extra args", ArrayParam(<<"a", "b", "c">>))>>,
         <<Workspace("source", "", TRUE)>>,
         <<Result("digest", "")>>)

TaskBuild2 ==
    Task("build", "Second build.",
         <<Param("flags", "", ArrayParam(<<>>)), Param("env", "Environment", ObjectParam)>>,
         <<>>, <<>>)

TaskTest ==
    Task("test", "",
         <<>>,
         <<Workspace("src", "Sources", FALSE), Workspace("cache", "", TRUE)>>,
         <<>>)

TaskLint ==
    Task("lint", "Lints.",
         <<Param("one", "", ArrayParam(<<"x">>)), Param("two", "", ArrayParam(<<"x", "y">>))>>,
         <<>>,
         <<Result("report", "Report path")>>)

BytesBuild == "kind: Task, name: build, description: Builds the app."

BytesBuild2 == "kind: Task, name: build, description: Second build."

BytesTest == "kind: Task, name: test"

BytesLint == "kind: Task, name: lint, description: Lints."

BytesBad == "kind: Task, spec: ["

BytesConfigMap == "kind: ConfigMap, name: settings"

NoTask == Task("", "", <<>>, <<>>, <<>>)

Unmarshal(bytes) ==
    CASE bytes = BytesBuild -> [task |-> TaskBuild, err |-> FALSE]
      [] bytes = BytesBuild2 -> [task |-> TaskBuild2, err |-> FALSE]
      [] bytes = BytesTest -> [task |-> TaskTest, err |-> FALSE]
      [] bytes = BytesLint -> [task |-> TaskLint, err |-> FALSE]
      [] OTHER -> [task |-> NoTask, err |-> TRUE]

OutDir == "taskmd.out"

\* The paths a command line may name.
InPaths ==
    { <<"a", "task.yaml">>, <<"b", "task.yaml">>, <<"a", "README.md">>,
      <<"a", "bad.yaml">>, <<"a", "missing.yaml">>, <<OutDir, "lint", "README.md">> }

\* The manifests on disk, outside the output directory.
InputFiles ==
    (<<"a">> :> Dir) @@ (<<"b">> :> Dir)
    @@ (<<"a", "task.yaml">> :> File(BytesBuild))
    @@ (<<"b", "task.yaml">> :> File(BytesBuild2))
    @@ (<<"a", "README.md">> :> File(BytesTest))
    @@ (<<"a", "bad.yaml">> :> File(BytesBad))

\* What the output directory may hold before the first invocation: nothing,
\* the remains of earlier runs of either program, or a regular file.
StaleOut ==
    (<<OutDir>> :> Dir)
    @@ (<<OutDir, "old.md">> :> File("# 'old'\n"))
    @@ (<<OutDir, "build.md">> :> File("# 'build'\n\nstale\n"))
    @@ (<<OutDir, "build">> :> Dir)
    @@ (<<OutDir, "build", "README.md">> :> File("# 'build'\n\nstale\n"))
    @@ (<<OutDir, "build", "old.yaml">> :> File("kind: Task, name: build, old"))
    @@ (<<OutDir, "lint">> :> Dir)
    @@ (<<OutDir, "lint", "README.md">> :> File(BytesLint))

InitialFs ==
    { InputFiles, StaleOut @@ InputFiles, (<<OutDir>> :> File("")) @@ InputFiles }

\* The resources a kustomize build may emit.
Resource(kind, json) == [kind |-> kind, json |-> json]

ResourceKinds ==
    { Resource("Task", BytesBuild), Resource("Task", BytesBuild2),
      Resource("Task", BytesTest), Resource("ConfigMap", BytesConfigMap),
      Resource("Task", BytesBad) }

SeqsUpTo(S, n) == UNION {[1..k -> S] : k \in 0..n}

\* KustomizeBuild's outcome: an error, or the resource map.
Builds ==
    {[list |-> <<>>, err |-> TRUE]}
    \cup {[list |-> l, err |-> FALSE] : l \in SeqsUpTo(ResourceKinds, MaxRes)}

NoBuild == [list |-> <<>>, err |-> TRUE]

----------------------------------------------------------------------------
(* The load steps *)

TaskBundle(path, task) == [path |-> path, task |-> task]

\* LoadAllTasks: the first path that cannot be read or decoded ends the load
\* with (nil, err).
RECURSIVE LoadFrom(_, _, _, _)
LoadFrom(f, paths, k, acc) ==
    IF k > Len(paths) THEN [tasks |-> acc, err |-> FALSE]
    ELSE LET rd == ReadFile(f, paths[k], FALSE) IN
         IF rd.err THEN [tasks |-> <<>>, err |-> TRUE]
         ELSE LET u == Unmarshal(rd.bytes) IN
              IF u.err THEN [tasks |-> <<>>, err |-> TRUE]
              ELSE LoadFrom(f, paths, k + 1, Append(acc, TaskBundle(paths[k], u.task)))

\* Seeded fault: a path that cannot be read or decoded is skipped.
RECURSIVE LoadSkippingFrom(_, _, _, _)
LoadSkippingFrom(f, paths, k, acc) ==
    IF k > Len(paths) THEN [tasks |-> acc, err |-> FALSE]
    ELSE LET rd == ReadFile(f, paths[k], FALSE)
             u == Unmarshal(rd.bytes)
         IN
         IF rd.err \/ u.err THEN LoadSkippingFrom(f, paths, k + 1, acc)
         ELSE LoadSkippingFrom(f, paths, k + 1,
                               Append(acc, TaskBundle(paths[k], u.task)))

LoadAllTasksSkipBad(f, paths) == LoadSkippingFrom(f, paths, 1, <<>>)

LoadAllTasks(f, paths) == LoadFrom(f, paths, 1, <<>>)

\* ResourceToType: MarshalJSON, then json.Unmarshal into the Task.
ResourceToType(res) == Unmarshal(res.json)

\* GetAllTasksFromResourceMap: returns at the first resource whose kind is not
\* "Task"; a decode error returns the tasks so far with the error.
RECURSIVE ScanFrom(_, _, _)
ScanFrom(list, k, acc) ==
    IF k > Len(list) THEN [tasks |-> acc, err |-> FALSE]
    ELSE IF list[k].kind # "Task" THEN [tasks |-> acc, err |-> FALSE]
    ELSE LET u == ResourceToType(list[k]) IN
         IF u.err THEN [tasks |-> acc, err |-> TRUE]
         ELSE ScanFrom(list, k + 1, Append(acc, u.task))

\* Seeded fault: a resource that is not a Task is skipped and the scan goes on.
RECURSIVE ScanSkippingFrom(_, _, _)
ScanSkippingFrom(list, k, acc) ==
    IF k > Len(list) THEN [tasks |-> acc, err |-> FALSE]
    ELSE IF list[k].kind # "Task" THEN ScanSkippingFrom(list, k + 1, acc)
    ELSE LET u == ResourceToType(list[k]) IN
         IF u.err THEN [tasks |-> acc, err |-> TRUE]
         ELSE ScanSkippingFrom(list, k + 1, Append(acc, u.task))

GetAllTasksSkipNonTask(list) == ScanSkippingFrom(list, 1, <<>>)

GetAllTasksFromResourceMap(list) == ScanFrom(list, 1, <<>>)

----------------------------------------------------------------------------
(* The output writer *)

\* Operations of writeGenerateMarkdown that can fail, per program.
WriteOpsFile == 7

WriteOpsRes == 2

\* What writeGenerateMarkdown leaves: the filesystem, whether it returned an
\* error, and (history) the number of the operation that failed.
Failed(f, n) == [fs |-> f, err |-> TRUE, op |-> n]

Done(f) == [fs |-> f, err |-> FALSE, op |-> 0]

\* writeGenerateMarkdown of main.go: operation number `fault` (0: none) fails.
writeGenerateMarkdownFile(f, taskBundle, doc, fault, cut) ==
    LET dir == <<OutDir, taskBundle.task.Name>>
        mk == MkdirAll(f, dir, fault = 1)
    IN
    IF mk.err THEN Failed(mk.fs, 1) ELSE
    LET readme == dir \o <<"README.md">>
        readmeFile == Create(mk.fs, readme, fault = 2)
    IN
    IF readmeFile.err THEN Failed(readmeFile.fs, 2) ELSE
    LET wr == Write(readmeFile.fs, readme, doc, fault = 3, cut) IN
    IF wr.err THEN Failed(wr.fs, 3) ELSE
    LET stat == Stat(wr.fs, taskBundle.path, fault = 4) IN
    IF stat.err THEN Failed(wr.fs, 4) ELSE
    LET rd == ReadFile(wr.fs, taskBundle.path, fault = 5) IN
    IF rd.err THEN Failed(wr.fs, 5) ELSE
    LET copy == dir \o <<stat.name>>
        taskFile == Create(wr.fs, copy, fault = 6)
    IN
    IF taskFile.err THEN Failed(taskFile.fs, 6) ELSE
    LET wc == Write(taskFile.fs, copy, rd.bytes, fault = 7, cut) IN
    IF wc.err THEN Failed(wc.fs, 7) ELSE Done(wc.fs)

\* The file name taskmd.out/<name>.md of the resource-set program.
MdPath(name) == <<OutDir, name \o ".md">>

\* writeGenerateMarkdown of the resource-set program.
writeGenerateMarkdownRes(f, task, doc, fault, cut) ==
    LET file == Create(f, MdPath(task.Name), fault = 1) IN
    IF file.err THEN Failed(file.fs, 1) ELSE
    LET wr == Write(file.fs, MdPath(task.Name), doc, fault = 2, cut) IN
    IF wr.err THEN Failed(wr.fs, 2) ELSE Done(wr.fs)

\* Seeded fault: the output directory is not removed first.
PrepareFileKeep(f, fault, part) ==
    IF fault = 1 THEN [fs |-> f, err |-> TRUE] ELSE MkdirAll(f, <<OutDir>>, fault = 2)

\* GenerateMarkdownToDirectory before its loop, main.go: RemoveAll, MkdirAll.
PrepareFile(f, fault, part) ==
    LET rm == RemoveAll(f, <<OutDir>>, fault = 1, part) IN
    IF rm.err THEN rm ELSE MkdirAll(rm.fs, <<OutDir>>, fault = 2)

\* Seeded fault: the output directory is removed first, as in main.go.
PrepareResWipe(f, fault) ==
    MkdirAll(RemoveAll(f, <<OutDir>>, FALSE, FALSE).fs, <<OutDir>>, fault = 1)

\* GenerateMarkdownToDirectory before its loop, resource-set program: MkdirAll.
PrepareRes(f, fault) == MkdirAll(f, <<OutDir>>, fault = 1)

\* One iteration of the loop: render, then write.
Iteration(f, v, t, fault, cut) ==
    LET task == IF v = "file" THEN t.task ELSE t
        doc == RenderDoc(task)
    IN
    IF doc.err THEN Failed(f, 0)
    ELSE IF v = "file" THEN writeGenerateMarkdownFile(f, t, doc.sb, fault, cut)
    ELSE writeGenerateMarkdownRes(f, t, doc.sb, fault, cut)

----------------------------------------------------------------------------
(* The process *)

Exit(code, msg) ==
    /\ pc' = "exit"
    /\ exitCode' = code
    /\ stderr' = msg

UsageFile == "usage: taskmd [task-files]"

UsageRes == "usage: taskmd [kustomize-dir]"

\* len(os.Args), the program name included.
ArgCount == Len(args) + 1

Init ==
    /\ variant \in {"file", "res"}
    /\ \/ /\ variant = "file"
          /\ args \in SeqsUpTo(InPaths, MaxArgs)
          /\ resources = NoBuild
       \/ /\ variant = "res"
          /\ \/ args = <<<<"k">>>> /\ resources \in Builds
             \/ args \in {<<>>, <<<<"k">>, <<"k2">>>>} /\ resources = NoBuild
    /\ fs \in InitialFs
    /\ pc = "main"
    /\ tasks = <<>>
    /\ i = 0
    /\ exitCode = -1
    /\ stderr = ""
    /\ runNo = 1
    /\ fs0 = fs
    /\ fsPrev = fs
    /\ ioErrs = 0
    /\ failedAt = 0
    /\ failedOp = 0

\* main's test of len(os.Args), main.go.
WrongArgCountFile(n) == n <= 1

\* Seeded fault: two or more arguments pass.
WrongArgCountResBelow(n) == n < 2

\* main's test of len(os.Args), resource-set program.
WrongArgCountRes(n) == n # 2

\* main of main.go: the usage check, then run.
MainFile ==
    /\ pc = "main" /\ variant = "file"
    /\ IF WrongArgCountFile(ArgCount)
       THEN Exit(1, UsageFile)
       ELSE pc' = "run" /\ UNCHANGED <<exitCode, stderr>>
    /\ UNCHANGED <<variant, args, resources, fs, tasks, i, runNo, fs0, fsPrev,
                   ioErrs, failedAt, failedOp>>

\* main of the resource-set program.
MainRes ==
    /\ pc = "main" /\ variant = "res"
    /\ IF WrongArgCountRes(ArgCount)
       THEN Exit(1, UsageRes)
       ELSE pc' = "run" /\ UNCHANGED <<exitCode, stderr>>
    /\ UNCHANGED <<variant, args, resources, fs, tasks, i, runNo, fs0, fsPrev,
                   ioErrs, failedAt, failedOp>>

\* run of main.go up to GenerateMarkdownToDirectory: LoadAllTasks.
RunFile ==
    /\ pc = "run" /\ variant = "file"
    /\ LET r == LoadAllTasks(fs, args) IN
       IF r.err
       THEN Exit(1, "load error") /\ UNCHANGED tasks
       ELSE pc' = "generate" /\ tasks' = r.tasks /\ UNCHANGED <<exitCode, stderr>>
    /\ UNCHANGED <<variant, args, resources, fs, i, runNo, fs0, fsPrev, ioErrs,
                   failedAt, failedOp>>

\* run of the resource-set program up to GenerateMarkdownToDirectory:
\* KustomizeBuild, then GetAllTasksFromResourceMap; either error is fatal.
RunRes ==
    /\ pc = "run" /\ variant = "res"
    /\ IF resources.err
       THEN Exit(1, "build error") /\ UNCHANGED tasks
       ELSE LET r == GetAllTasksFromResourceMap(resources.list) IN
            IF r.err
            THEN Exit(1, "decode error") /\ tasks' = r.tasks
            ELSE pc' = "generate" /\ tasks' = r.tasks /\ UNCHANGED <<exitCode, stderr>>
    /\ UNCHANGED <<variant, args, resources, fs, i, runNo, fs0, fsPrev, ioErrs,
                   failedAt, failedOp>>

\* GenerateMarkdownToDirectory before the loop.
Prepare ==
    /\ pc = "generate"
    /\ \E fault \in 0..2, part \in BOOLEAN :
         LET r == IF variant = "file" THEN PrepareFile(fs, fault, part)
                  ELSE PrepareRes(fs, fault)
         IN
         /\ fs' = r.fs
         /\ IF r.err
            THEN Exit(1, "io error") /\ ioErrs' = ioErrs + 1 /\ UNCHANGED i
            ELSE pc' = "loop" /\ i' = 1 /\ UNCHANGED <<exitCode, stderr, ioErrs>>
    /\ UNCHANGED <<variant, args, resources, tasks, runNo, fs0, fsPrev, failedAt,
                   failedOp>>

\* Seeded fault: the loop goes on after a failed write.
WriteTaskIgnoreError ==
    /\ pc = "loop" /\ i <= Len(tasks)
    /\ \E fault \in 0..(IF variant = "file" THEN WriteOpsFile ELSE WriteOpsRes),
          cut \in 0..MaxPartial :
         LET r == Iteration(fs, variant, tasks[i], fault, cut) IN
         /\ fs' = r.fs
         /\ i' = i + 1
         /\ IF r.err
            THEN /\ ioErrs' = ioErrs + 1
                 /\ failedAt' = i
                 /\ failedOp' = r.op
            ELSE UNCHANGED <<ioErrs, failedAt, failedOp>>
    /\ UNCHANGED <<variant, args, resources, tasks, runNo, fs0, fsPrev, pc,
                   exitCode, stderr>>

\* One iteration of GenerateMarkdownToDirectory's loop.
WriteTask ==
    /\ pc = "loop" /\ i <= Len(tasks)
    /\ \E fault \in 0..(IF variant = "file" THEN WriteOpsFile ELSE WriteOpsRes),
          cut \in 0..MaxPartial :
         LET r == Iteration(fs, variant, tasks[i], fault, cut) IN
         /\ fs' = r.fs
         /\ IF r.err
            THEN /\ Exit(1, "io error")
                 /\ ioErrs' = ioErrs + 1
                 /\ failedAt' = i
                 /\ failedOp' = r.op
                 /\ UNCHANGED i
            ELSE /\ i' = i + 1
                 /\ UNCHANGED <<pc, exitCode, stderr, ioErrs, failedAt, failedOp>>
    /\ UNCHANGED <<variant, args, resources, tasks, runNo, fs0, fsPrev>>

\* The loop is over: GenerateMarkdownToDirectory, run and main return.
Return ==
    /\ pc = "loop" /\ i > Len(tasks)
    /\ Exit(0, "")
    /\ UNCHANGED <<variant, args, resources, fs, tasks, i, runNo, fs0, fsPrev,
                   ioErrs, failedAt, failedOp>>

\* The same command line is run again.  Invocations are followed up to the
\* first one whose output writer meets an I/O error.
Rerun ==
    /\ pc = "exit" /\ runNo < MaxRuns /\ ioErrs = 0
    /\ pc' = "main"
    /\ runNo' = runNo + 1
    /\ fsPrev' = fs0
    /\ fs0' = fs
    /\ tasks' = <<>>
    /\ i' = 0
    /\ exitCode' = -1
    /\ stderr' = ""
    /\ failedAt' = 0
    /\ failedOp' = 0
    /\ UNCHANGED <<variant, args, resources, fs, ioErrs>>

Next ==
    \/ MainFile
    \/ MainRes
    \/ RunFile
    \/ RunRes
    \/ Prepare
    \/ WriteTask
    \/ Return
    \/ Rerun

Spec == Init /\ [][Next]_vars

----------------------------------------------------------------------------
(* Shared by the properties *)

\* The task of loop index k.
TaskAt(k) == IF variant = "file" THEN tasks[k].task ELSE tasks[k]

\* The loop is about to render and write task i.
AtTask == pc = "loop" /\ i <= Len(tasks)

\* The output directory and everything in it.
OutTree(f) == [q \in {q \in DOMAIN f : IsPrefix(<<OutDir>>, q)} |-> f[q]]

\* The part of s after position p and before position q.
Between(s, p, q) == SubSeq(s, p + 1, q - 1)

HeadParameters == "## Parameters\n"

HeadWorkspaces == "## Workspaces\n"

HeadResults == "## Results\n"

Bullet == "* **"

----------------------------------------------------------------------------
(* C1 *)

\* doc is the five sections of task, each once and in order: the header line and
\* a blank line first, then the description and a blank line, then the three
\* headings, each followed by exactly one bullet per element of its list (none
\* for an empty list) and, for the first two, a blank line.
FiveSections(task, doc) ==
    LET header == "# " \o Tick \o task.Name \o Tick \o "\n\n"
        descEnd == Len(header) + Len(task.Description) + 2
        posP == Positions(doc, HeadParameters)
        posW == Positions(doc, HeadWorkspaces)
        posR == Positions(doc, HeadResults)
    IN
    /\ IsPrefix(header, doc)
    /\ Occurs(doc, "# " \o Tick) = 1
    /\ SubSeq(doc, Len(header) + 1, descEnd) = task.Description \o "\n\n"
    /\ posP = {descEnd + 1}
    /\ Cardinality(posW) = 1
    /\ Cardinality(posR) = 1
    /\ LET p == descEnd + 1
           w == CHOOSE x \in posW : TRUE
           r == CHOOSE x \in posR : TRUE
           params == Between(doc, p + Len(HeadParameters) - 1, w)
           workspaces == Between(doc, w + Len(HeadWorkspaces) - 1, r)
           results == SubSeq(doc, r + Len(HeadResults), Len(doc))
       IN
       /\ p < w /\ w < r
       /\ Occurs(params, Bullet) = Len(task.Params)
       /\ Occurs(workspaces, Bullet) = Len(task.Workspaces)
       /\ Occurs(results, Bullet) = Len(task.Results)
       /\ Occurs(params, "\n") = Len(task.Params) + 1
       /\ Occurs(workspaces, "\n") = Len(task.Workspaces) + 1
       /\ Occurs(results, "\n") = Len(task.Results)

\* C1: in both programs, the document rendered for every decoded task holds
\* exactly the five sections Header, Description, Parameters, Workspaces and
\* Results, each once and in that order; an empty list gives its heading with
\* no bullet, never a missing heading.
C1_FiveSectionsInOrder ==
    AtTask =>
        LET r == RenderDoc(TaskAt(i)) IN ~r.err /\ FiveSections(TaskAt(i), r.sb)

\* A task with no workspaces and no results is about to be rendered by the
\* resource-set program, after one with a workspace and a result was written.
C1_Witness ==
    /\ AtTask /\ variant = "res" /\ i = 2
    /\ TaskAt(1).Workspaces # <<>> /\ TaskAt(1).Results # <<>>
    /\ TaskAt(2).Workspaces = <<>> /\ TaskAt(2).Results = <<>>
    /\ IsFile(fs, MdPath(TaskAt(1).Name))

----------------------------------------------------------------------------
(* C2 *)

RECURSIVE JoinCommaSpace(_, _)
JoinCommaSpace(items, k) ==
    IF k > Len(items) THEN ""
    ELSE IF k = Len(items) THEN items[k]
    ELSE items[k] \o ", " \o JoinCommaSpace(items, k + 1)

\* [item1, item2, ..., itemN]
Bracketed(items) == "[" \o JoinCommaSpace(items, 1) \o "]"

\* C2: for every parameter whose default is an array, stringifyParam returns
\* the bracketed form [item1, ..., itemN] and the parameter's bullet in the
\* rendered document ends with (Default: [item1, ..., itemN]).
C2_ArrayDefaultBracketed ==
    AtTask =>
        \A k \in 1..Len(TaskAt(i).Params) :
            LET param == TaskAt(i).Params[k] IN
            param.Default.Type = "array" =>
                /\ stringifyParam(param.Default).s = Bracketed(param.Default.ArrayVal)
                /\ Occurs(RenderDoc(TaskAt(i)).sb,
                          Tick \o "(Default: " \o Bracketed(param.Default.ArrayVal)
                               \o ")" \o Tick \o "\n") >= 1

----------------------------------------------------------------------------
(* C3 *)

\* Some path of the command line cannot be read or decoded when the
\* invocation starts.
LoadMustFail ==
    \E k \in 1..Len(args) :
        \/ ~IsFile(fs0, args[k])
        \/ Unmarshal(fs0[args[k]].data).err

\* C3: in the file-based program, when reading or decoding any input path
\* fails, no bundle is returned and the run ends with an error before anything
\* is rendered or written: the filesystem, the output directory included, stays
\* as it was when the invocation started.
C3_LoadFailureTouchesNothing ==
    (variant = "file" /\ LoadMustFail) =>
        /\ pc \in {"main", "run", "exit"}
        /\ fs = fs0
        /\ tasks = <<>>
        /\ pc = "exit" => exitCode = 1

\* The second of two paths is undecodable, the first loads, the output
\* directory held files of an earlier run, and the run has ended.
C3_Witness ==
    /\ variant = "file" /\ pc = "exit" /\ runNo = 1
    /\ Len(args) = 2
    /\ args[1] = <<"a", "task.yaml">> /\ args[2] = <<"a", "bad.yaml">>
    /\ IsFile(fs0, <<OutDir, "old.md">>)
    /\ exitCode = 1

----------------------------------------------------------------------------
(* C7 *)

WrongArgs ==
    \/ variant = "file" /\ Len(args) = 0
    \/ variant = "res" /\ Len(args) # 1

\* C7: with a wrong argument count (no path for the file-based program; none,
\* or two or more, for the resource-set program) main logs the usage message
\* and exits non-zero before run is called: nothing is loaded or built and the
\* filesystem stays as it was.
C7_UsageBeforeRun ==
    WrongArgs =>
        /\ pc \in {"main", "exit"}
        /\ tasks = <<>>
        /\ fs = fs0
        /\ pc = "exit" =>
              /\ exitCode # 0
              /\ stderr = (IF variant = "file" THEN UsageFile ELSE UsageRes)

\* The resource-set program was given two arguments and has exited, the
\* output directory of an earlier run being on disk.
C7_Witness ==
    /\ variant = "res" /\ Len(args) = 2 /\ pc = "exit"
    /\ IsDir(fs, <<OutDir>>)

----------------------------------------------------------------------------
(* C4, C5 *)

\* The run of the file-based program has ended with status 0.
FileRunSucceeded == variant = "file" /\ pc = "exit" /\ exitCode = 0

DistinctNames ==
    \A j, k \in 1..Len(tasks) : j # k => TaskAt(j).Name # TaskAt(k).Name

\* The bytes of input path k when the invocation started.
OriginalBytes(k) == fs0[args[k]].data

\* Where the manifest of input path k is copied to.
CopyPath(k) == <<OutDir, TaskAt(k).Name, Last(args[k])>>

ReadmePath(k) == <<OutDir, TaskAt(k).Name, "README.md">>

\* C4: after a successful run of the file-based program with distinct task
\* names, taskmd.out/<name>/README.md exists for every input and holds the
\* document rendered for its task, whatever the base name of the manifest.
C4_ReadmeHoldsDocument ==
    (FileRunSucceeded /\ DistinctNames) =>
        \A k \in 1..Len(tasks) :
            /\ IsFile(fs, ReadmePath(k))
            /\ fs[ReadmePath(k)].data = RenderDoc(TaskAt(k)).sb

Overwritten(k) ==
    \E j \in (k + 1)..Len(args) :
        TaskAt(j).Name = TaskAt(k).Name /\ Last(args[j]) = Last(args[k])

----------------------------------------------------------------------------
(* C6 *)

\* The input files of the command line are the same at the start of this
\* invocation as at the start of the previous one.
InputsUnchanged ==
    \A k \in 1..Len(args) :
        /\ args[k] \in DOMAIN fs0 <=> args[k] \in DOMAIN fsPrev
        /\ args[k] \in DOMAIN fs0 => fs0[args[k]] = fsPrev[args[k]]

\* The paths a successful run of the file-based program writes.
WrittenByFileRun ==
    {<<OutDir>>}
    \cup {<<OutDir, TaskAt(k).Name>> : k \in 1..Len(tasks)}
    \cup {ReadmePath(k) : k \in 1..Len(tasks)}
    \cup {CopyPath(k) : k \in 1..Len(tasks)}

\* C6: when the file-based program is run twice in a row on the same command
\* line and unchanged input files (no I/O error of the output writer), the
\* output directory holds after the second run exactly what it held after the
\* first, whatever it held before the first; and after a successful run it
\* holds nothing but what that run wrote (stale entries do not survive).
C6_SecondRunSameOutput ==
    (variant = "file" /\ pc = "exit" /\ ioErrs = 0) =>
        /\ (runNo >= 2 /\ InputsUnchanged) => OutTree(fs) = OutTree(fs0)
        /\ exitCode = 0 => DOMAIN OutTree(fs) = WrittenByFileRun

\* The second run on two manifests has succeeded; before the first run the
\* output directory held files of an earlier run.
C6_Witness ==
    /\ variant = "file" /\ pc = "exit" /\ exitCode = 0 /\ ioErrs = 0
    /\ runNo = 2 /\ InputsUnchanged
    /\ Len(tasks) = 2
    /\ IsFile(fsPrev, <<OutDir, "old.md">>)
    /\ OutTree(fs0) # OutTree(fsPrev)

----------------------------------------------------------------------------
(* C8 *)

\* The length of the longest prefix of list whose resources are all Tasks.
RECURSIVE TaskPrefixLen(_, _)
TaskPrefixLen(list, k) ==
    IF k <= Len(list) /\ list[k].kind = "Task" THEN TaskPrefixLen(list, k + 1)
    ELSE k - 1

\* The resource-set program was given one directory and its build succeeded.
Built == variant = "res" /\ Len(args) = 1 /\ ~resources.err

\* C8: GetAllTasksFromResourceMap returns, in emitted order, the tasks decoded
\* from the longest prefix of Task resources (a Task of that prefix that does
\* not decode ends the run with an error instead): nothing after the first
\* non-Task resource is returned or documented.  When the first resource is
\* not a Task the task list is empty, no per-task file is written, and the run
\* succeeds unless creating the output directory fails.
C8_ScanStopsAtFirstNonTask ==
    (Built /\ pc \in {"generate", "loop", "exit"}) =>
        LET list == resources.list
            n == TaskPrefixLen(list, 1)
            decodable == \A k \in 1..n : ~Unmarshal(list[k].json).err
        IN
        /\ decodable => tasks = [k \in 1..n |-> Unmarshal(list[k].json).task]
        /\ ~decodable => pc = "exit" /\ exitCode = 1
        /\ (list # <<>> /\ list[1].kind # "Task") =>
              /\ tasks = <<>>
              /\ \A p \in DOMAIN fs : p \in DOMAIN fs0 \/ p = <<OutDir>>
              /\ \A p \in DOMAIN fs0 : p \in DOMAIN fs /\ fs[p] = fs0[p]
              /\ pc = "exit" => exitCode = 0 \/ stderr = "io error"

\* A Task, a ConfigMap and another Task were emitted; the run succeeded having
\* documented the first Task only.
C8_Witness ==
    /\ Built /\ pc = "exit" /\ exitCode = 0 /\ runNo = 1
    /\ Len(resources.list) = 3
    /\ resources.list[1].kind = "Task"
    /\ resources.list[2].kind = "ConfigMap"
    /\ resources.list[3] = Resource("Task", BytesBuild)
    /\ tasks = <<TaskBuild2>>
    /\ IsFile(fs, MdPath("build"))

----------------------------------------------------------------------------
(* C9 *)

\* No task after j, up to the failing one, has the name of task j.
NotRewritten(j) ==
    \A m \in (j + 1)..failedAt : TaskAt(m).Name # TaskAt(j).Name

\* No task up to the failing one has the name of task j.
NotYetNamed(j) ==
    \A m \in 1..failedAt : TaskAt(m).Name # TaskAt(j).Name

\* What a completed writeGenerateMarkdown left for task j.
OutputOf(j) ==
    IF variant = "res"
    THEN fs[MdPath(TaskAt(j).Name)] = File(RenderDoc(TaskAt(j)).sb)
    ELSE /\ IsDir(fs, <<OutDir, TaskAt(j).Name>>)
         /\ IsFile(fs, ReadmePath(j))
         /\ IsFile(fs, CopyPath(j))
         /\ Last(tasks[j].path) # "README.md" =>
                fs[ReadmePath(j)].data = RenderDoc(TaskAt(j)).sb
         /\ tasks[j].path[1] # OutDir =>
                fs[CopyPath(j)].data = fs0[tasks[j].path].data

\* Nothing of task j is on disk that the invocation did not find there.
NoOutputOf(j) ==
    IF variant = "res"
    THEN LET p == MdPath(TaskAt(j).Name) IN
         IF p \in DOMAIN fs0 THEN p \in DOMAIN fs /\ fs[p] = fs0[p]
         ELSE p \notin DOMAIN fs
    ELSE <<OutDir, TaskAt(j).Name>> \notin DOMAIN fs

\* What the failing writeGenerateMarkdown had already created for its task.
PartialOutput ==
    IF variant = "res"
    THEN failedOp = 2 => IsFile(fs, MdPath(TaskAt(failedAt).Name))
    ELSE /\ failedOp >= 2 => IsDir(fs, <<OutDir, TaskAt(failedAt).Name>>)
         /\ failedOp >= 3 => IsFile(fs, ReadmePath(failedAt))
         /\ failedOp \in 4..6 =>
                fs[ReadmePath(failedAt)].data = RenderDoc(TaskAt(failedAt)).sb
         /\ failedOp = 7 => IsFile(fs, CopyPath(failedAt))

\* C9: in both programs, when a filesystem operation fails while the output of
\* the k-th task is written, the run ends with that error: nothing is written
\* for the tasks after k, what was written for the tasks before k is still on
\* disk (unless task k or an earlier one of the same name replaced it), and so
\* is what was already created for task k.
C9_FailedWriteStopsTheBatch ==
    (pc = "exit" /\ failedAt > 0) =>
        /\ exitCode = 1
        /\ i = failedAt
        /\ \A j \in 1..(failedAt - 1) : NotRewritten(j) => OutputOf(j)
        /\ \A j \in (failedAt + 1)..Len(tasks) : NotYetNamed(j) => NoOutputOf(j)
        /\ PartialOutput

\* The resource-set program wrote the first of three tasks, created the file of
\* the second and failed writing it; the third has the name of the first.
C9_Witness ==
    /\ variant = "res" /\ pc = "exit" /\ failedAt = 2 /\ failedOp = 2
    /\ tasks = <<TaskBuild, TaskTest, TaskBuild2>>
    /\ fs[MdPath("build")] = File(RenderDoc(TaskBuild).sb)
    /\ IsFile(fs, MdPath("test"))

----------------------------------------------------------------------------
(* C10 *)

MdPaths == {MdPath(TaskAt(k).Name) : k \in 1..Len(tasks)}

\* The last task of the list that has the name of task k.
LastNamed(k) ==
    CHOOSE j \in k..Len(tasks) :
        /\ TaskAt(j).Name = TaskAt(k).Name
        /\ \A m \in (j + 1)..Len(tasks) : TaskAt(m).Name # TaskAt(k).Name

\* C10: a run of the resource-set program changes nothing on disk but the
\* files taskmd.out/<name>.md of the tasks it processes: every other entry
\* stays as it was, the only entries it adds are the output directory (when
\* absent) and those files, directly in it; after a successful run each of
\* them holds the document of the last task of that name.
C10_ResourceRunFrame ==
    variant = "res" =>
        /\ \A p \in DOMAIN fs0 :
              p \notin MdPaths => p \in DOMAIN fs /\ fs[p] = fs0[p]
        /\ \A p \in DOMAIN fs :
              p \notin DOMAIN fs0 => p = <<OutDir>> \/ p \in MdPaths
        /\ (pc = "exit" /\ exitCode = 0) =>
              \A k \in 1..Len(tasks) :
                  fs[MdPath(TaskAt(k).Name)] = File(RenderDoc(TaskAt(LastNamed(k))).sb)

\* Two tasks of the same name were documented into an output directory that
\* held files of earlier runs, one of them of that name.
C10_Witness ==
    /\ variant = "res" /\ pc = "exit" /\ exitCode = 0 /\ runNo = 1
    /\ tasks = <<TaskBuild, TaskBuild2>>
    /\ IsFile(fs0, <<OutDir, "old.md">>) /\ IsFile(fs0, MdPath("build"))
    /\ fs[MdPath("build")] # fs0[MdPath("build")]

====
